---------------------------- MODULE Spec2Model ----------------------------
(***************************************************************************)
(* Model of actual-budget-mortgage: the period cursor and the accrual      *)
(* engine that books one mortgage-interest transaction per calendar month. *)
(*                                                                         *)
(* Two variants of the engine live in the repository and both are          *)
(* modelled, selected by env.variant:                                      *)
(*   "service" MortgageInterestService (src/unnamed/part_000), the same    *)
(*             control flow as the refactored mainWithDeps                 *)
(*             (src/actual-mortgage-interest.ts:441-466);                  *)
(*   "inline"  the first mainWithDeps (src/actual-mortgage-interest.ts:    *)
(*             66-203), which also calls setBudgetAmount.                  *)
(*                                                                         *)
(* Every action is one collaborator call returning (or throwing) together  *)
(* with the synchronous continuation of the caller up to the next await.   *)
(* pc names the collaborator call that is in flight; req holds the         *)
(* arguments it was issued with.                                           *)
(***************************************************************************)
EXTENDS Integers, Sequences, FiniteSets, TLC

(***************************************************************************)
(* Bounds of the model.                                                    *)
(***************************************************************************)
\* number of runs of the program that are started one after the other
MaxRuns == 2
\* number of calendar months the clock can move through, from FirstMonth
NumMonths == 2

(***************************************************************************)
(* Calendar: a Date is [y, m, d] with m in 1..12 (getMonth() + 1).         *)
(***************************************************************************)
IsLeapYear(y) == (y % 4 = 0 /\ y % 100 # 0) \/ y % 400 = 0

DaysInMonth(y, m) ==
    IF m = 2 THEN (IF IsLeapYear(y) THEN 29 ELSE 28)
    ELSE IF m \in {4, 6, 9, 11} THEN 30 ELSE 31

\* new Date(year, monthIndex, day): out-of-range months and days roll over
RECURSIVE NewDate(_, _, _)
NewDate(y, m, d) ==
    IF m > 12 THEN NewDate(y + 1, m - 12, d)
    ELSE IF m < 1 THEN NewDate(y - 1, m + 12, d)
    ELSE IF d < 1 THEN
        LET py == IF m = 1 THEN y - 1 ELSE y
            pm == IF m = 1 THEN 12 ELSE m - 1
        IN  NewDate(py, pm, d + DaysInMonth(py, pm))
    ELSE IF d > DaysInMonth(y, m) THEN NewDate(y, m + 1, d - DaysInMonth(y, m))
    ELSE [y |-> y, m |-> m, d |-> d]

\* date-fns endOfMonth(date).getDate()
EndOfMonthDay(date) == DaysInMonth(date.y, date.m)

\* date-fns addMonths(date, 1): the day is kept, clamped to the target month
AddMonthsBuggy(date) ==
    [y |-> date.y, m |-> date.m + 1, d |-> date.d]
AddMonths(date) ==
    LET ny == IF date.m = 12 THEN date.y + 1 ELSE date.y
        nm == IF date.m = 12 THEN 1 ELSE date.m + 1
        nd == IF date.d > DaysInMonth(ny, nm) THEN DaysInMonth(ny, nm) ELSE date.d
    IN  [y |-> ny, m |-> nm, d |-> nd]

\* format(date, "yyyy-MM-dd"): the string, as the number yyyymmdd that
\* orders the same way the strings do
FormatDay(date) == date.y * 10000 + date.m * 100 + date.d
\* format(date, "yyyy-MM")
FormatMonthOnly(date) == date.m
FormatMonth(date) == date.y * 100 + date.m
\* format(date, "yyyy-MM-01")
FormatFirst(date) == date.y * 10000 + date.m * 100 + 1

\* date-fns isAfter(a, b) on local midnights
IsAfterMonthOnly(a, b) == a.m > b.m
IsAfter(a, b) == FormatDay(a) > FormatDay(b)


(***************************************************************************)
(* The calendar months and the days the clock visits.                      *)
(***************************************************************************)
FirstMonth == [y |-> 2023, m |-> 12, d |-> 1]

\* the i-th calendar month from FirstMonth
MonthAt(i) == NewDate(FirstMonth.y, FirstMonth.m + i, 1)

HorizonMonths == {MonthAt(i) : i \in 0..(NumMonths - 1)}

\* the clock is observed on the 10th and on the last day of each month
ClockDates ==
    UNION {{[y |-> p.y, m |-> p.m, d |-> dd] : dd \in {10, EndOfMonthDay(p)}} :
            p \in HorizonMonths}

FirstClockDate == CHOOSE c \in ClockDates :
    \A o \in ClockDates : FormatDay(c) <= FormatDay(o)

(***************************************************************************)
(* Values of the environment variables (loadConfig).                       *)
(***************************************************************************)
Variants == {"service", "inline"}
BookingDays == {1, 25}
AnnualRatesBp == {400}          \* ANNUAL_RATE in basis points; default 0.04
OpeningBalances == {100000}     \* cents on the mortgage account

\* the connection settings loadConfig requires; each is set, the empty
\* string, or absent from the environment
RequiredVars == {"ACTUAL_URL", "ACTUAL_PASSWORD", "ACTUAL_SYNC_ID"}
AllSet == [k \in RequiredVars |-> "set"]
RequiredSettings ==
    {AllSet} \cup
    {[AllSet EXCEPT ![k] = v] : k \in RequiredVars, v \in {"empty", "absent"}}

NoDate == [y |-> 0, m |-> 0, d |-> 0]        \* Invalid Date / not yet set
Unset == [kind |-> "unset", date |-> NoDate]      \* FROM_DATE not set
Garbage == [kind |-> "garbage", date |-> NoDate]  \* FROM_DATE="not-a-date"
FromDates ==
    {Unset, Garbage} \cup
    {[kind |-> "iso", date |-> [y |-> p.y, m |-> p.m, d |-> 15]] :
        p \in HorizonMonths}

\* date-fns parseISO of a date-only string: that local day, or Invalid Date
ParseISO(s) == IF s.kind = "iso" THEN s.date ELSE NoDate
IsNaNDateNever(date) == FALSE
IsNaNDate(date) == date = NoDate

MortgageName == "Hypotheek"
CategoryName == "Wonen: Hypotheekrente"

\* what getAccounts / getCategories can list
AccountListings ==
    { {[id |-> "acc-1", name |-> MortgageName, offbudget |-> TRUE]},
      {[id |-> "acc-1", name |-> MortgageName, offbudget |-> FALSE]},
      {[id |-> "acc-2", name |-> "Betaalrekening", offbudget |-> FALSE]} }
CategoryListings ==
    { {[id |-> "cat-1", name |-> CategoryName]},
      {[id |-> "cat-2", name |-> "Boodschappen"]} }

NoAccount == [id |-> "", name |-> "", offbudget |-> FALSE]
NoCategory == [id |-> "", name |-> ""]

VARIABLES
    clock,       \* the calendar day of the wall clock
    env,         \* process.env: variant, bookingDay, annualRate, fromDate,
                 \* required (the connection settings)
    accounts,    \* the ledger's account listing
    categories,  \* the ledger's category listing
    ledger,      \* the ledger's transactions, in the order they were added
    budget,      \* the ledger's budgeted amounts: set of [period, category, amount]
    runNo,       \* number of runs started so far
    pc,          \* the collaborator call in flight, or idle/done/failed/killed
    req,         \* the arguments of the call in flight
    cfg,         \* the Config this run loaded
    mortgage,    \* the resolved account
    category,    \* the resolved category
    today,       \* run(): today, at local midnight
    cursor,      \* run(): cursor
    loc,         \* processPeriod's locals: bookDate, asOfDate, interestCents
    session,     \* "none", "open" (init returned), "closed" (shutdown returned)
    calls,       \* history: the collaborator calls this run issued
    processed,   \* history: the periods this run finished, with their outcome
    out,         \* history: what this run logged and threw
    snap,        \* history: ledger and budget when this run started
    prev,        \* history: summary of the run before this one
    arg,         \* the inputs of a helper function applied on its own
    res          \* the result of that application

runVars == <<pc, req, cfg, mortgage, category, today, cursor, loc, session,
             calls, processed, out, snap, prev, runNo>>
ledgerVars == <<accounts, categories, ledger, budget>>
vars == <<clock, env, accounts, categories, ledger, budget, runNo, pc, req,
          cfg, mortgage, category, today, cursor, loc, session, calls,
          processed, out, snap, prev, arg, res>>

NoReq == [op |-> "none"]
NoLoc == [bookDate |-> NoDate, asOfDate |-> NoDate, interestCents |-> 0]
NoCfg == [bookingDay |-> 0, annualRate |-> 0, dryRun |-> FALSE,
          fromDate |-> Unset, mortgageAccount |-> "", interestCategory |-> ""]
NoOut == [warned |-> FALSE, allDone |-> FALSE, error |-> "none",
          shutdownCalled |-> FALSE, shutdownError |-> FALSE]
NoPrev == [status |-> "none", dryRun |-> FALSE, today |-> NoDate]
NoArg == [cursor |-> NoDate, other |-> NoDate, bookingDay |-> 0]
NoRes == [op |-> "none"]


(***************************************************************************)
(* The ledger (the external collaborator behind Dependencies).             *)
(***************************************************************************)
RECURSIVE SumAmounts(_)
SumAmounts(txs) ==
    IF txs = <<>> THEN 0 ELSE Head(txs).amount + SumAmounts(Tail(txs))

\* getTransactions(accountId, startDate, endDate): the account's
\* transactions dated within [startDate, endDate], both ends included
LedgerGetTransactions(l, accountId, startDate, endDate) ==
    SelectSeq(l, LAMBDA t : /\ t.account = accountId
                            /\ t.date >= startDate
                            /\ t.date <= FormatDay(endDate))

\* getAccountBalance(accountId, asOfDate): sum of the account's
\* transactions dated up to and including asOfDate
LedgerGetAccountBalance(l, accountId, asOfDate) ==
    SumAmounts(SelectSeq(l, LAMBDA t : /\ t.account = accountId
                                       /\ t.date <= FormatDay(asOfDate)))

\* setBudgetAmount(period, categoryId, amount) replaces the month's amount
LedgerSetBudgetAmount(b, period, categoryId, amount) ==
    {e \in b : ~(e.period = period /\ e.category = categoryId)} \cup
    {[period |-> period, category |-> categoryId, amount |-> amount]}

\* the opening balance of the mortgage account, booked before FirstMonth
OpeningTransaction(amount) ==
    [date |-> FormatDay(NewDate(FirstMonth.y, FirstMonth.m, 0)) - 100,
     amount |-> amount, account |-> "acc-1", payee_name |-> "Opening",
     category |-> "", cleared |-> TRUE,
     imported_id |-> [prefix |-> "opening", period |-> 0]]

(***************************************************************************)
(* The program's helper functions.                                         *)
(***************************************************************************)
\* the required variables for which !process.env[k] holds
MissingEnvVarsAbsentOnly(e) == {k \in RequiredVars : e.required[k] = "absent"}
MissingEnvVars(e) == {k \in RequiredVars : e.required[k] # "set"}

\* loadConfig; NoCfg when a required variable is missing (process.exit(1))
LoadConfig(e, dry) ==
    IF MissingEnvVars(e) # {} THEN NoCfg
    ELSE [mortgageAccount |-> MortgageName, interestCategory |-> CategoryName,
          annualRate |-> e.annualRate, bookingDay |-> e.bookingDay,
          dryRun |-> dry, fromDate |-> e.fromDate]

\* Math.round(n / den) for den > 0: the nearest integer, halves upwards
RoundDiv(n, den) == (2 * n + den) \div (2 * den)

\* Math.round(b * num / (den * 1000)), computed from the thousands and the
\* rest of b so that no intermediate product is large
RoundScaled(b, num, den) ==
    LET hi == b \div 1000
        lo == b % 1000
        qa == (hi * num) \div den
        ra == (hi * num) % den
    IN  qa + RoundDiv(ra * 1000 + lo * num, den * 1000)

\* Math.round(b * rateE9 / 10^9), computed from the thousands and the rests
\* of both factors so that no intermediate product is large
MulE9Round(b, rateE9) ==
    LET bh == b \div 1000
        bl == b % 1000
        rh == rateE9 \div 1000
        rl == rateE9 % 1000
        X == bh * rh
        Y == bh * rl + bl * rh
        Z == bl * rl
        W == (X % 1000) * 1000 + (Y % 1000000)
    IN  (X \div 1000) + (Y \div 1000000)
          + ((W + 500000 + (Z \div 1000)) \div 1000000)

\* Math.round(balanceCents * (annualRate / 365 * 30)); the rate in basis points
CalculateMonthlyInterest(balanceCents, annualRateBp) ==
    RoundScaled(balanceCents, annualRateBp * 3, 365)

\* Math.round(balanceCents * (0.00009159 * 31)) = round(b * 2839290 / 10^9)
CalculateMonthlyInterestInline(balanceCents, annualRateBp) ==
    MulE9Round(balanceCents, 2839290)

\* Math.pow(1 + annualRate, 1 / 12) - 1 in units of 10^-9, for the annual
\* rates (in basis points) the model uses
CompoundMonthlyRateE9(annualRateBp) ==
    CASE annualRateBp = 0 -> 0
      [] annualRateBp = 100 -> 829538
      [] annualRateBp = 340 -> 2790116
      [] annualRateBp = 400 -> 3273740
      [] annualRateBp = 1200 -> 9488793

\* the compiled service's calculateMonthlyInterest: compound interest,
\* monthDate is not used
CalculateMonthlyInterestCompoundByMonth(balanceCents, annualRateBp, monthDate) ==
    RoundScaled(balanceCents,
                annualRateBp * NewDate(monthDate.y, monthDate.m + 1, 0).d, 3650)
CalculateMonthlyInterestCompound(balanceCents, annualRateBp, monthDate) ==
    MulE9Round(balanceCents, CompoundMonthlyRateE9(annualRateBp))

\* calculateMonthlyInterestDailyMethod:
\* Math.round(balanceCents * (annualRate / 365 * daysInMonth))
CalculateMonthlyInterestDailyMethodFixed30(balanceCents, annualRateBp, monthDate) ==
    RoundScaled(balanceCents, annualRateBp * 30, 3650)
CalculateMonthlyInterestDailyMethod(balanceCents, annualRateBp, monthDate) ==
    LET daysInMonth == NewDate(monthDate.y, monthDate.m + 1, 0).d
    IN  RoundScaled(balanceCents, annualRateBp * daysInMonth, 3650)

\* accounts.find(a => a.name === name); NoAccount stands for undefined
FindMortgageAccountAny(accs, name) ==
    IF accs # {} THEN CHOOSE a \in accs : TRUE ELSE NoAccount
FindMortgageAccount(accs, name) ==
    IF \E a \in accs : a.name = name
    THEN CHOOSE a \in accs : a.name = name
    ELSE NoAccount

FindInterestCategory(cats, name) ==
    IF \E c \in cats : c.name = name
    THEN CHOOSE c \in cats : c.name = name
    ELSE NoCategory

\* the first day of FROM_DATE's month, else of today's month; NoDate when
\* FROM_DATE does not parse (the function throws)
GetCursorStartDateIgnoresFromDate(c, t) ==
    NewDate(t.y, t.m, 1)
GetCursorStartDateNoTruncate(c, t) ==
    IF c.fromDate.kind # "unset"
    THEN ParseISO(c.fromDate)
    ELSE NewDate(t.y, t.m, 1)
GetCursorStartDate(c, t) ==
    IF c.fromDate.kind # "unset"
    THEN LET parsed == ParseISO(c.fromDate)
         IN  IF IsNaNDate(parsed) THEN NoDate
             ELSE NewDate(parsed.y, parsed.m, 1)
    ELSE NewDate(t.y, t.m, 1)

ImportedId(cur) == [prefix |-> "interest", period |-> FormatMonth(cur)]

\* transactions.some(t => t.imported_id === importedId)
HasPostedInterestNever(transactions, importedId) == FALSE
HasPostedInterest(transactions, importedId) ==
    \E i \in 1..Len(transactions) : transactions[i].imported_id = importedId

\* existing.length > 0 && existing.find(t => t.imported_id === importedId)
HasPostedInterestInline(existing, importedId) ==
    /\ Len(existing) > 0
    /\ \E i \in 1..Len(existing) : existing[i].imported_id = importedId

CalculateBookingDatesNoClamp(cur, bookingDay) ==
    [bookDate |-> NewDate(cur.y, cur.m, bookingDay),
     asOfDate |-> NewDate(cur.y, cur.m, 1 - 1)]
CalculateBookingDatesAsOfFirst(cur, bookingDay) ==
    LET lastDay == EndOfMonthDay(cur)
        bookingDayAdjusted == IF bookingDay < lastDay THEN bookingDay ELSE lastDay
    IN  [bookDate |-> NewDate(cur.y, cur.m, bookingDayAdjusted),
         asOfDate |-> NewDate(cur.y, cur.m, 1)]
CalculateBookingDates(cur, bookingDay) ==
    LET lastDay == EndOfMonthDay(cur)
        bookingDayAdjusted == IF bookingDay < lastDay THEN bookingDay ELSE lastDay
    IN  [bookDate |-> NewDate(cur.y, cur.m, bookingDayAdjusted),
         asOfDate |-> NewDate(cur.y, cur.m, 1 - 1)]

\* the record postInterestTransaction submits
InterestTransactionUncleared(mortgageId, interestCents, catId, importedId, bookDate) ==
    [date |-> FormatDay(bookDate), amount |-> interestCents,
     account |-> mortgageId, payee_name |-> "Hypotheekrente",
     category |-> catId, cleared |-> FALSE, imported_id |-> importedId]
InterestTransaction(mortgageId, interestCents, catId, importedId, bookDate) ==
    [date |-> FormatDay(bookDate), amount |-> interestCents,
     account |-> mortgageId, payee_name |-> "Hypotheekrente",
     category |-> catId, cleared |-> TRUE, imported_id |-> importedId]

\* postInterestTransaction: the addTransactions call it issues, NoReq in dry-run
PostInterestTransactionTwice(mortgageId, interestCents, catId, importedId, bookDate, dryRun) ==
    IF dryRun THEN NoReq
    ELSE [op |-> "addTransactions", accountId |-> mortgageId,
          transactions |-> <<InterestTransaction(mortgageId, interestCents,
                                                 catId, importedId, bookDate),
                             InterestTransaction(mortgageId, interestCents,
                                                 catId, importedId, bookDate)>>,
          options |-> [runTransfers |-> FALSE, learnCategories |-> FALSE]]
PostInterestTransactionAlways(mortgageId, interestCents, catId, importedId, bookDate, dryRun) ==
    [op |-> "addTransactions", accountId |-> mortgageId,
     transactions |-> <<InterestTransaction(mortgageId, interestCents, catId,
                                            importedId, bookDate)>>,
     options |-> [runTransfers |-> FALSE, learnCategories |-> FALSE]]
PostInterestTransaction(mortgageId, interestCents, catId, importedId, bookDate, dryRun) ==
    IF dryRun THEN NoReq
    ELSE [op |-> "addTransactions", accountId |-> mortgageId,
          transactions |-> <<InterestTransaction(mortgageId, interestCents,
                                                 catId, importedId, bookDate)>>,
          options |-> [runTransfers |-> FALSE, learnCategories |-> FALSE]]


(***************************************************************************)
(* Initial state: a ledger holding the opening balance, no run started.    *)
(***************************************************************************)
Init ==
    /\ clock = FirstClockDate
    /\ env \in [variant : Variants, bookingDay : BookingDays,
                annualRate : AnnualRatesBp, fromDate : FromDates,
                required : RequiredSettings]
    /\ accounts \in AccountListings
    /\ categories \in CategoryListings
    /\ \E b \in OpeningBalances : ledger = <<OpeningTransaction(b)>>
    /\ budget = {}
    /\ runNo = 0
    /\ pc = "idle"
    /\ req = NoReq
    /\ cfg = NoCfg
    /\ mortgage = NoAccount
    /\ category = NoCategory
    /\ today = NoDate
    /\ cursor = NoDate
    /\ loc = NoLoc
    /\ session = "none"
    /\ calls = <<>>
    /\ processed = <<>>
    /\ out = NoOut
    /\ snap = [ledger |-> <<>>, budget |-> {}]
    /\ prev = NoPrev
    /\ arg = NoArg
    /\ res = NoRes

PeriodCalls == {"getTransactions", "getAccountBalance", "setBudgetAmount",
                "addTransactions"}
SetupCalls == {"init", "downloadBudget", "getAccounts", "getCategories"}
InFlight == SetupCalls \cup PeriodCalls \cup {"shutdown"}
Ended == {"done", "failed", "killed"}

Call(op, cur) == [op |-> op, period |-> IF cur = NoDate THEN 0 ELSE FormatMonth(cur)]
Outcome(cur, o) == [period |-> cur, outcome |-> o]

(***************************************************************************)
(* Continuations shared by the actions.                                    *)
(***************************************************************************)
\* an exception leaves run(): main().catch logs it and exits with status 1
ThrowSwallowed(kind) ==
    /\ pc' = "done"
    /\ req' = NoReq
    /\ out' = [out EXCEPT !.error = kind, !.allDone = TRUE]
Throw(kind) ==
    /\ pc' = "failed"
    /\ req' = NoReq
    /\ out' = [out EXCEPT !.error = kind]

\* the head of the while loop with the cursor at c: the next period's
\* existence query is issued, or the loop is left and shutdown is called.
\* The service passes new Date() as the window's end, the inline variant today.
LoopFromWindowEndsAtCursor(c, t) ==
    /\ cursor' = c
    /\ loc' = NoLoc
    /\ IF ~IsAfter(c, t)
       THEN /\ pc' = "getTransactions"
            /\ req' = [op |-> "getTransactions", accountId |-> mortgage.id,
                       startDate |-> FormatFirst(c), endDate |-> c]
            /\ calls' = Append(calls, Call("getTransactions", c))
            /\ out' = out
       ELSE /\ pc' = "shutdown"
            /\ req' = [op |-> "shutdown"]
            /\ calls' = Append(calls, Call("shutdown", NoDate))
            /\ out' = [out EXCEPT !.shutdownCalled = TRUE]
LoopFrom(c, t) ==
    /\ cursor' = c
    /\ loc' = NoLoc
    /\ IF ~IsAfter(c, t)
       THEN /\ pc' = "getTransactions"
            /\ req' = [op |-> "getTransactions", accountId |-> mortgage.id,
                       startDate |-> FormatFirst(c),
                       endDate |-> IF env.variant = "service" THEN clock ELSE t]
            /\ calls' = Append(calls, Call("getTransactions", c))
            /\ out' = out
       ELSE /\ pc' = "shutdown"
            /\ req' = [op |-> "shutdown"]
            /\ calls' = Append(calls, Call("shutdown", NoDate))
            /\ out' = [out EXCEPT !.shutdownCalled = TRUE]

(***************************************************************************)
(* The environment.                                                        *)
(***************************************************************************)
\* the clock reaches the next of the days it is observed on
Tick ==
    /\ \E n \in ClockDates :
        /\ FormatDay(n) > FormatDay(clock)
        /\ \A o \in ClockDates :
              FormatDay(o) > FormatDay(clock) => FormatDay(n) <= FormatDay(o)
        /\ clock' = n
    /\ UNCHANGED <<arg, res, env, ledgerVars, runVars>>

\* the process is terminated while a collaborator call is in flight
Kill ==
    /\ pc \in InFlight
    /\ pc' = "killed"
    /\ req' = NoReq
    /\ UNCHANGED <<arg, res, clock, env, ledgerVars, runNo, cfg, mortgage, category,
                   today, cursor, loc, session, calls, processed, out, snap,
                   prev>>

\* a collaborator call other than shutdown rejects: nothing is changed in
\* the ledger and the error propagates out of run()
CallFails ==
    /\ pc \in SetupCalls \cup PeriodCalls
    /\ Throw("rejected")
    /\ processed' = IF pc \in PeriodCalls
                    THEN Append(processed, Outcome(cursor, "FAILED"))
                    ELSE processed
    /\ UNCHANGED <<arg, res, clock, env, ledgerVars, runNo, cfg, mortgage, category,
                   today, cursor, loc, session, calls, snap, prev>>

(***************************************************************************)
(* A run: main() / MortgageInterestService.run() / mainWithDeps().         *)
(***************************************************************************)
\* the program is started: loadConfig, then init is called
StartRun ==
    /\ pc \in {"idle"} \cup Ended
    /\ runNo < MaxRuns
    /\ runNo' = runNo + 1
    /\ \E dry \in BOOLEAN : cfg' = LoadConfig(env, dry)
    /\ prev' = IF pc = "idle" THEN NoPrev
               ELSE [status |-> pc, dryRun |-> cfg.dryRun, today |-> today]
    /\ IF cfg' = NoCfg
       THEN /\ pc' = "failed"
            /\ req' = NoReq
            /\ calls' = <<>>
            /\ out' = [NoOut EXCEPT !.error = "Missing env var"]
       ELSE /\ pc' = "init"
            /\ req' = [op |-> "init"]
            /\ calls' = <<Call("init", NoDate)>>
            /\ out' = NoOut
    /\ mortgage' = NoAccount
    /\ category' = NoCategory
    /\ today' = NoDate
    /\ cursor' = NoDate
    /\ loc' = NoLoc
    /\ session' = "none"
    /\ processed' = <<>>
    /\ snap' = [ledger |-> ledger, budget |-> budget]
    /\ UNCHANGED <<arg, res, clock, env, ledgerVars>>

InitReturnsSkipsDownload ==
    /\ pc = "init"
    /\ session' = "open"
    /\ pc' = "getAccounts"
    /\ req' = [op |-> "getAccounts"]
    /\ calls' = Append(calls, Call("getAccounts", NoDate))
    /\ UNCHANGED <<arg, res, clock, env, ledgerVars, runNo, cfg, mortgage, category,
                   today, cursor, loc, processed, out, snap, prev>>
InitReturns ==
    /\ pc = "init"
    /\ session' = "open"
    /\ pc' = "downloadBudget"
    /\ req' = [op |-> "downloadBudget"]
    /\ calls' = Append(calls, Call("downloadBudget", NoDate))
    /\ UNCHANGED <<arg, res, clock, env, ledgerVars, runNo, cfg, mortgage, category,
                   today, cursor, loc, processed, out, snap, prev>>

DownloadBudgetReturns ==
    /\ pc = "downloadBudget"
    /\ pc' = "getAccounts"
    /\ req' = [op |-> "getAccounts"]
    /\ calls' = Append(calls, Call("getAccounts", NoDate))
    /\ UNCHANGED <<arg, res, clock, env, ledgerVars, runNo, cfg, mortgage, category,
                   today, cursor, loc, session, processed, out, snap, prev>>

\* getAccounts returns: findMortgageAccount, then getCategories is called
GetAccountsReturns ==
    /\ pc = "getAccounts"
    /\ LET found == FindMortgageAccount(accounts, cfg.mortgageAccount)
       IN  IF found = NoAccount
           THEN /\ Throw("Account not found")
                /\ UNCHANGED <<mortgage, calls>>
           ELSE /\ mortgage' = found
                /\ out' = [out EXCEPT !.warned = ~found.offbudget]
                /\ pc' = "getCategories"
                /\ req' = [op |-> "getCategories"]
                /\ calls' = Append(calls, Call("getCategories", NoDate))
    /\ UNCHANGED <<arg, res, clock, env, ledgerVars, runNo, cfg, category, today,
                   cursor, loc, session, processed, snap, prev>>

\* getCategories returns: findInterestCategory, today, getCursorStartDate,
\* and the loop is entered
GetCategoriesReturns ==
    /\ pc = "getCategories"
    /\ LET found == FindInterestCategory(categories, cfg.interestCategory)
           t == clock
           start == GetCursorStartDate(cfg, t)
       IN  IF found = NoCategory
           THEN /\ Throw("Category not found")
                /\ UNCHANGED <<category, today, cursor, loc, calls>>
           ELSE IF IsNaNDate(start)
           THEN /\ category' = found
                /\ today' = t
                /\ Throw("Invalid FROM_DATE")
                /\ UNCHANGED <<cursor, loc, calls>>
           ELSE /\ category' = found
                /\ today' = t
                /\ LoopFrom(start, t)
    /\ UNCHANGED <<arg, res, clock, env, ledgerVars, runNo, cfg, mortgage, session,
                   processed, snap, prev>>


(***************************************************************************)
(* One period: processPeriod(cursor), or the body of the inline loop.      *)
(***************************************************************************)
\* the inline variant's commit: setBudgetAmount first, nothing in dry-run
InlineBudgetRequest(periodStr, catId, interestCents, dryRun) ==
    IF ~dryRun
    THEN [op |-> "setBudgetAmount", period |-> periodStr,
          categoryId |-> catId, amountCents |-> interestCents]
    ELSE NoReq

\* the period at the cursor is over (skipped, simulated or committed):
\* cursor = addMonths(cursor, 1) and the loop condition is tested again
NextPeriodStuck(o) ==
    /\ processed' = Append(processed, Outcome(cursor, o))
    /\ LoopFrom(cursor, today)
NextPeriod(o) ==
    /\ processed' = Append(processed, Outcome(cursor, o))
    /\ LoopFrom(AddMonths(cursor), today)

\* the existence query returns: skip the period, or derive the dates and
\* fetch the balance
GetTransactionsReturns ==
    /\ pc = "getTransactions"
    /\ LET existing == LedgerGetTransactions(ledger, req.accountId,
                                             req.startDate, req.endDate)
           importedId == ImportedId(cursor)
           posted == IF env.variant = "service"
                     THEN HasPostedInterest(existing, importedId)
                     ELSE HasPostedInterestInline(existing, importedId)
           dates == CalculateBookingDates(cursor, cfg.bookingDay)
       IN  IF posted
           THEN NextPeriod("SKIPPED")
           ELSE IF IsNaNDate(dates.bookDate) \/ IsNaNDate(dates.asOfDate)
           THEN /\ Throw("Invalid booking or asOf date")
                /\ processed' = Append(processed, Outcome(cursor, "FAILED"))
                /\ UNCHANGED <<cursor, loc, calls>>
           ELSE /\ loc' = [bookDate |-> dates.bookDate,
                           asOfDate |-> dates.asOfDate, interestCents |-> 0]
                /\ pc' = "getAccountBalance"
                /\ req' = [op |-> "getAccountBalance",
                           accountId |-> mortgage.id,
                           asOfDate |-> dates.asOfDate]
                /\ calls' = Append(calls, Call("getAccountBalance", cursor))
                /\ UNCHANGED <<cursor, processed, out>>
    /\ UNCHANGED <<arg, res, clock, env, ledgerVars, runNo, cfg, mortgage, category,
                   today, session, snap, prev>>

\* the balance returns: the interest is computed and the booking begins,
\* or is only reported in dry-run
GetAccountBalanceReturns ==
    /\ pc = "getAccountBalance"
    /\ LET balanceCents == LedgerGetAccountBalance(ledger, req.accountId,
                                                   req.asOfDate)
           interestCents ==
               IF env.variant = "service"
               THEN CalculateMonthlyInterest(balanceCents, cfg.annualRate)
               ELSE CalculateMonthlyInterestInline(balanceCents, cfg.annualRate)
           next ==
               IF env.variant = "service"
               THEN PostInterestTransaction(mortgage.id, interestCents,
                        category.id, ImportedId(cursor), loc.bookDate,
                        cfg.dryRun)
               ELSE InlineBudgetRequest(FormatMonth(cursor), category.id,
                                        interestCents, cfg.dryRun)
       IN  IF next = NoReq
           THEN NextPeriod("SIMULATED")
           ELSE /\ loc' = [loc EXCEPT !.interestCents = interestCents]
                /\ pc' = next.op
                /\ req' = next
                /\ calls' = Append(calls, Call(next.op, cursor))
                /\ UNCHANGED <<cursor, processed, out>>
    /\ UNCHANGED <<arg, res, clock, env, ledgerVars, runNo, cfg, mortgage, category,
                   today, session, snap, prev>>

\* inline variant: the budget is set, then the transaction is submitted
SetBudgetAmountReturns ==
    /\ pc = "setBudgetAmount"
    /\ budget' = LedgerSetBudgetAmount(budget, req.period, req.categoryId,
                                       req.amountCents)
    /\ pc' = "addTransactions"
    /\ req' = [op |-> "addTransactions", accountId |-> mortgage.id,
               transactions |-> <<InterestTransaction(mortgage.id,
                    loc.interestCents, category.id, ImportedId(cursor),
                    loc.bookDate)>>,
               options |-> [runTransfers |-> FALSE, learnCategories |-> FALSE]]
    /\ calls' = Append(calls, Call("addTransactions", cursor))
    /\ UNCHANGED <<arg, res, clock, env, accounts, categories, ledger, runNo, cfg,
                   mortgage, category, today, cursor, loc, session, processed,
                   out, snap, prev>>

\* the ledger stores the submitted records as they are
AddTransactionsReturnsThenThrows ==
    /\ pc = "addTransactions"
    /\ ledger' = ledger \o req.transactions
    /\ Throw("rejected")
    /\ processed' = Append(processed, Outcome(cursor, "FAILED"))
    /\ UNCHANGED <<cursor, loc, calls>>
    /\ UNCHANGED <<arg, res, clock, env, accounts, categories, budget, runNo, cfg,
                   mortgage, category, today, session, snap, prev>>
AddTransactionsReturns ==
    /\ pc = "addTransactions"
    /\ ledger' = ledger \o req.transactions
    /\ NextPeriod("COMMITTED")
    /\ UNCHANGED <<arg, res, clock, env, accounts, categories, budget, runNo, cfg,
                   mortgage, category, today, session, snap, prev>>

\* shutdown returns and "All done." is logged
ShutdownReturns ==
    /\ pc = "shutdown"
    /\ session' = "closed"
    /\ pc' = "done"
    /\ req' = NoReq
    /\ out' = [out EXCEPT !.allDone = TRUE]
    /\ UNCHANGED <<arg, res, clock, env, ledgerVars, runNo, cfg, mortgage, category,
                   today, cursor, loc, calls, processed, snap, prev>>

\* shutdown throws: the error is logged and "All done." is logged all the same
ShutdownFailsEscalates ==
    /\ pc = "shutdown"
    /\ pc' = "failed"
    /\ req' = NoReq
    /\ out' = [out EXCEPT !.error = "rejected", !.shutdownError = TRUE]
    /\ UNCHANGED <<arg, res, clock, env, ledgerVars, runNo, cfg, mortgage, category,
                   today, cursor, loc, session, calls, processed, snap, prev>>
ShutdownFails ==
    /\ pc = "shutdown"
    /\ pc' = "done"
    /\ req' = NoReq
    /\ out' = [out EXCEPT !.allDone = TRUE, !.shutdownError = TRUE]
    /\ UNCHANGED <<arg, res, clock, env, ledgerVars, runNo, cfg, mortgage, category,
                   today, cursor, loc, session, calls, processed, snap, prev>>

Next ==
    \/ Tick
    \/ Kill
    \/ CallFails
    \/ StartRun
    \/ InitReturns
    \/ DownloadBudgetReturns
    \/ GetAccountsReturns
    \/ GetCategoriesReturns
    \/ GetTransactionsReturns
    \/ GetAccountBalanceReturns
    \/ SetBudgetAmountReturns
    \/ AddTransactionsReturns
    \/ ShutdownReturns
    \/ ShutdownFails

Spec == Init /\ [][Next]_vars

\* an awaited collaborator call that is not interrupted settles: the promise
\* resolves and the continuation after the await runs
Returns ==
    \/ InitReturns
    \/ DownloadBudgetReturns
    \/ GetAccountsReturns
    \/ GetCategoriesReturns
    \/ GetTransactionsReturns
    \/ GetAccountBalanceReturns
    \/ SetBudgetAmountReturns
    \/ AddTransactionsReturns
    \/ ShutdownReturns

FairSpec == Spec /\ WF_vars(Returns)


(***************************************************************************)
(* Vocabulary of the properties.                                           *)
(***************************************************************************)
InterestKey(p) == [prefix |-> "interest", period |-> p.y * 100 + p.m]

CountKey(l, key) == Len(SelectSeq(l, LAMBDA t : t.imported_id = key))

\* the start month the configuration asks for, given the run's today
ResolvedStart ==
    IF cfg.fromDate.kind = "iso"
    THEN [y |-> cfg.fromDate.date.y, m |-> cfg.fromDate.date.m, d |-> 1]
    ELSE [y |-> today.y, m |-> today.m, d |-> 1]

MonthIndex(p) == p.y * 12 + p.m

\* the calendar months from the start month to today's month
RangeMonths ==
    {p \in HorizonMonths :
        /\ MonthIndex(ResolvedStart) <= MonthIndex(p)
        /\ MonthIndex(p) <= MonthIndex(today)}

MutatingOps == {"addTransactions", "setBudgetAmount"}
CallsWithOp(ops) == {i \in 1..Len(calls) : calls[i].op \in ops}
OutcomesOf(o) == {i \in 1..Len(processed) : processed[i].outcome = o}

\* C1: a run started after a completed non-simulated run, with the same
\* configuration and the same today, issues no addTransactions, and when it
\* is done every one of its periods was SKIPPED.
C1_SecondRunCommitsNothing ==
    (/\ prev.status = "done"
     /\ ~prev.dryRun
     /\ ~cfg.dryRun
     /\ today # NoDate
     /\ today = prev.today)
    => /\ CallsWithOp({"addTransactions"}) = {}
       /\ pc = "done" =>
            \A i \in 1..Len(processed) : processed[i].outcome = "SKIPPED"

\* C2: the ledger never holds two records with the same idempotency key.
C2_AtMostOneRecordPerKey ==
    \A i, j \in 1..Len(ledger) :
        ledger[i].imported_id = ledger[j].imported_id => i = j

\* C3: when a non-simulated run is done, every month from the start month
\* to today's month has exactly one record with its key in the ledger.
C3_BackfillExactlyOne ==
    (pc = "done" /\ ~cfg.dryRun)
    => \A p \in RangeMonths : CountKey(ledger, InterestKey(p)) = 1

\* C4: when a non-simulated run stopped (killed or failed) and the next
\* non-simulated run, with the same today, is done, every month in range has
\* exactly one record: none is double-booked and none is left unbooked.
C4_RerunAfterInterruption ==
    (/\ prev.status \in {"failed", "killed"}
     /\ ~prev.dryRun
     /\ prev.today = today
     /\ pc = "done"
     /\ ~cfg.dryRun)
    => /\ \A p \in RangeMonths : CountKey(ledger, InterestKey(p)) <= 1
       /\ \A p \in RangeMonths : CountKey(ledger, InterestKey(p)) >= 1

\* C5: in a dry run no ledger-mutating call is issued for any period, and
\* ledger and budget are what they were when the run started.
C5_DryRunMutatesNothing ==
    (runNo > 0 /\ cfg.dryRun)
    => /\ CallsWithOp(MutatingOps) = {}
       /\ pc \notin MutatingOps
       /\ ledger = snap.ledger
       /\ budget = snap.budget

\* a dry run that is done, having skipped a booked period and simulated an
\* unbooked one
C5_Witness ==
    /\ pc = "done"
    /\ cfg.dryRun
    /\ OutcomesOf("SKIPPED") # {}
    /\ OutcomesOf("SIMULATED") # {}


\* the existence query in flight finds a record with the cursor's key
ExistenceQueryFindsKey ==
    \E i \in 1..Len(ledger) :
        /\ ledger[i].account = req.accountId
        /\ ledger[i].date >= req.startDate
        /\ ledger[i].date <= req.endDate.y * 10000 + req.endDate.m * 100
                             + req.endDate.d
        /\ ledger[i].imported_id = InterestKey(cursor)

C6_SkippedHaveNoFurtherCall ==
    \A i \in OutcomesOf("SKIPPED") :
        \A k \in 1..Len(calls) :
            calls[k].period = processed[i].period.y * 100 + processed[i].period.m
            => calls[k].op = "getTransactions"

C6_QueryStep ==
    (pc = "getTransactions" /\ calls' # calls)
    => IF ExistenceQueryFindsKey
       THEN /\ processed' = Append(processed,
                                   [period |-> cursor, outcome |-> "SKIPPED"])
            /\ Len(calls') = Len(calls) + 1
            /\ calls'[Len(calls')].op \in {"getTransactions", "shutdown"}
            /\ calls'[Len(calls')].period # cursor.y * 100 + cursor.m
            /\ out'.error = "none"
            /\ ledger' = ledger
            /\ budget' = budget
       ELSE /\ processed' = processed
            /\ cursor' = cursor
            /\ pc' = "getAccountBalance"

\* C6: when the existence query for a period returns a record with the
\* period's key, the period is skipped: no balance fetch, no commit, no
\* error, and the run goes on with the next period or the shutdown; when it
\* returns none, the period is not skipped and its balance is fetched.
C6_SkipOnExistingKey ==
    /\ []C6_SkippedHaveNoFurtherCall
    /\ [][C6_QueryStep]_vars

\* a run that skipped its first period and committed its second
C6_Witness ==
    /\ Len(processed) >= 2
    /\ processed[1].outcome = "SKIPPED"
    /\ processed[2].outcome = "COMMITTED"

C7_FailedState ==
    out.error # "none"
    => /\ pc = "failed"
       /\ ~out.allDone
       /\ \A i, j \in 1..Len(calls) : calls[i] = calls[j] => i = j
       /\ \A i \in OutcomesOf("FAILED") :
            /\ i = Len(processed)
            /\ \A k \in 1..Len(calls) :
                 calls[k].period <= processed[i].period.y * 100
                                    + processed[i].period.m

C7_FailedStep ==
    /\ (out.error = "none" /\ out'.error # "none")
       => calls' = calls /\ ledger' = ledger /\ budget' = budget
    /\ out.error # "none"
       => \/ runNo' = runNo + 1
          \/ /\ calls' = calls
             /\ ledger' = ledger
             /\ budget' = budget
             /\ out' = out
             /\ pc' = pc

\* C7: when a collaborator call of a period fails, the error leaves the
\* run at once: the failed call is not issued again, no further call is
\* issued in that run, nothing more is booked and "All done." is not logged.
C7_FailFast ==
    /\ []C7_FailedState
    /\ [][C7_FailedStep]_vars

\* the commit of a period before today's month was rejected
C7_Witness ==
    /\ pc = "failed"
    /\ out.error = "rejected"
    /\ calls[Len(calls)].op = "addTransactions"
    /\ MonthIndex(cursor) < MonthIndex(today)

\* C8: every run that opened the session and ended, normally or with an
\* error, called shutdown.
C8_SessionReleasedOnEveryExit ==
    (pc \in {"done", "failed"} /\ session # "none") => out.shutdownCalled

\* the periods this run has reached, the one in progress included
PeriodsSeen ==
    [i \in 1..Len(processed) |-> processed[i].period]
    \o (IF pc \in PeriodCalls THEN <<cursor>> ELSE <<>>)

\* C9: the periods of a run are first-of-month dates, each one calendar
\* month after the one before (January after December), starting at the
\* resolved start month and, once the loop is left, ending at today's month.
C9_MonotonicChronology ==
    (runNo > 0 /\ today # NoDate)
    => LET s == PeriodsSeen
       IN  /\ \A i \in 1..Len(s) : s[i].d = 1 /\ s[i].m \in 1..12
           /\ \A i \in 1..(Len(s) - 1) :
                MonthIndex(s[i + 1]) = MonthIndex(s[i]) + 1
           /\ Len(s) > 0 => s[1] = ResolvedStart
           /\ (pc \in {"shutdown", "done"} /\ Len(s) > 0)
                => s[Len(s)] = [y |-> today.y, m |-> today.m, d |-> 1]

\* a run that processed December and then January of the next year
C9_Witness ==
    /\ pc = "done"
    /\ Len(processed) >= 2
    /\ processed[1].period.m = 12
    /\ processed[2].period.m = 1
    /\ processed[2].period.y = processed[1].period.y + 1

StartsAfterToday ==
    /\ runNo > 0
    /\ today # NoDate
    /\ cfg.fromDate.kind = "iso"
    /\ MonthIndex(cfg.fromDate.date) > MonthIndex(today)

\* C10: when FROM_DATE's month is after today's month the run processes no
\* period: no per-period call is issued, nothing is thrown, the ledger is
\* untouched, and the run goes to shutdown and "All done.".
C10_EmptyRange ==
    StartsAfterToday
    => /\ processed = <<>>
       /\ CallsWithOp(PeriodCalls) = {}
       /\ out.error = "none"
       /\ pc \in {"shutdown", "done", "killed"}
       /\ pc = "done" => out.allDone
       /\ ledger = snap.ledger
       /\ budget = snap.budget

C10_Witness ==
    /\ StartsAfterToday
    /\ pc = "done"
    /\ session = "closed"


(***************************************************************************)
(* The date helpers applied on their own: calculateBookingDates and the    *)
(* idempotency key, for every month of two years (one of them a leap year) *)
(* and booking days from below 1 to above 31.                              *)
(***************************************************************************)
PurePeriods == {[y |-> yy, m |-> mm, d |-> 1] : yy \in {2023, 2024}, mm \in 1..12}
PureBookingDays == (-1)..32

DatesInit ==
    /\ clock = FirstClockDate
    /\ env = [variant |-> "service", bookingDay |-> 25, annualRate |-> 400,
              fromDate |-> Unset, required |-> AllSet]
    /\ accounts = {[id |-> "acc-1", name |-> MortgageName, offbudget |-> TRUE]}
    /\ categories = {[id |-> "cat-1", name |-> CategoryName]}
    /\ ledger = <<>>
    /\ budget = {}
    /\ runNo = 0
    /\ pc = "idle"
    /\ req = NoReq
    /\ cfg = NoCfg
    /\ mortgage = NoAccount
    /\ category = NoCategory
    /\ today = NoDate
    /\ cursor = NoDate
    /\ loc = NoLoc
    /\ session = "none"
    /\ calls = <<>>
    /\ processed = <<>>
    /\ out = NoOut
    /\ snap = [ledger |-> <<>>, budget |-> {}]
    /\ prev = NoPrev
    /\ arg \in [cursor : PurePeriods, other : PurePeriods,
                bookingDay : PureBookingDays]
    /\ res = NoRes

\* calculateBookingDates(cursor, bookingDay) is called
ApplyCalculateBookingDates ==
    /\ res = NoRes
    /\ res' = [op |-> "calculateBookingDates",
               value |-> CalculateBookingDates(arg.cursor, arg.bookingDay)]
    /\ UNCHANGED <<arg, clock, env, ledgerVars, runVars>>

\* the importedId of two periods is computed
ApplyImportedId ==
    /\ res = NoRes
    /\ res' = [op |-> "importedId",
               value |-> <<ImportedId(arg.cursor), ImportedId(arg.other)>>]
    /\ UNCHANGED <<arg, clock, env, ledgerVars, runVars>>

DatesNext ==
    \/ ApplyCalculateBookingDates
    \/ ApplyImportedId

DatesSpec == DatesInit /\ [][DatesNext]_vars

(***************************************************************************)
(* The interest functions applied on their own: the service's, the inline  *)
(* one, the compiled service's compound one and the daily method, for      *)
(* balances of both signs, several annual rates and two months.            *)
(***************************************************************************)
InterestBalances ==
    {0, 1825, -1825, 100000, -100000, 5000000, 10000000, -10000000,
     20000000, 30000000}
InterestRatesBp == {0, 100, 340, 400, 1200}

InterestInit ==
    /\ clock = FirstClockDate
    /\ env = [variant |-> "service", bookingDay |-> 25, annualRate |-> 400,
              fromDate |-> Unset, required |-> AllSet]
    /\ accounts = {[id |-> "acc-1", name |-> MortgageName, offbudget |-> TRUE]}
    /\ categories = {[id |-> "cat-1", name |-> CategoryName]}
    /\ ledger = <<>>
    /\ budget = {}
    /\ runNo = 0
    /\ pc = "idle"
    /\ req = NoReq
    /\ cfg = NoCfg
    /\ mortgage = NoAccount
    /\ category = NoCategory
    /\ today = NoDate
    /\ cursor = NoDate
    /\ loc = NoLoc
    /\ session = "none"
    /\ calls = <<>>
    /\ processed = <<>>
    /\ out = NoOut
    /\ snap = [ledger |-> <<>>, budget |-> {}]
    /\ prev = NoPrev
    /\ arg \in [balance : InterestBalances, rate : InterestRatesBp,
                cursor : PurePeriods, other : PurePeriods]
    /\ res = NoRes

\* calculateMonthlyInterest(balance, rate) of the service, as processPeriod
\* calls it for a period, for another period, and for the negated balance
ApplyCalculateMonthlyInterest ==
    /\ res = NoRes
    /\ res' = [op |-> "calculateMonthlyInterest",
               value |-> CalculateMonthlyInterest(arg.balance, arg.rate),
               again |-> CalculateMonthlyInterest(arg.balance, arg.rate),
               negated |-> CalculateMonthlyInterest(-arg.balance, arg.rate)]
    /\ UNCHANGED <<arg, clock, env, ledgerVars, runVars>>

\* the inline calculateMonthlyInterest(balance, rate)
ApplyCalculateMonthlyInterestInline ==
    /\ res = NoRes
    /\ res' = [op |-> "calculateMonthlyInterestInline",
               value |-> CalculateMonthlyInterestInline(arg.balance, arg.rate),
               again |-> CalculateMonthlyInterestInline(arg.balance, arg.rate),
               negated |-> CalculateMonthlyInterestInline(-arg.balance,
                                                          arg.rate)]
    /\ UNCHANGED <<arg, clock, env, ledgerVars, runVars>>

\* the compiled service's calculateMonthlyInterest(balance, rate, monthDate)
ApplyCalculateMonthlyInterestCompound ==
    /\ res = NoRes
    /\ res' = [op |-> "calculateMonthlyInterestCompound",
               value |-> CalculateMonthlyInterestCompound(arg.balance,
                             arg.rate, arg.cursor),
               again |-> CalculateMonthlyInterestCompound(arg.balance,
                             arg.rate, arg.other),
               negated |-> CalculateMonthlyInterestCompound(-arg.balance,
                               arg.rate, arg.cursor)]
    /\ UNCHANGED <<arg, clock, env, ledgerVars, runVars>>

\* calculateMonthlyInterestDailyMethod(balance, rate, monthDate)
ApplyCalculateMonthlyInterestDailyMethod ==
    /\ res = NoRes
    /\ res' = [op |-> "calculateMonthlyInterestDailyMethod",
               value |-> CalculateMonthlyInterestDailyMethod(arg.balance,
                             arg.rate, arg.cursor),
               again |-> CalculateMonthlyInterestDailyMethod(arg.balance,
                             arg.rate, arg.other),
               negated |-> CalculateMonthlyInterestDailyMethod(-arg.balance,
                               arg.rate, arg.cursor)]
    /\ UNCHANGED <<arg, clock, env, ledgerVars, runVars>>

InterestNext ==
    \/ ApplyCalculateMonthlyInterest
    \/ ApplyCalculateMonthlyInterestInline
    \/ ApplyCalculateMonthlyInterestCompound
    \/ ApplyCalculateMonthlyInterestDailyMethod

InterestSpec == InterestInit /\ [][InterestNext]_vars

\* the last day of a calendar month, from the calendar
CalendarLastDay(y, m) ==
    CASE m \in {1, 3, 5, 7, 8, 10, 12} -> 31
      [] m \in {4, 6, 9, 11} -> 30
      [] m = 2 -> IF y % 4 = 0 /\ (y % 100 # 0 \/ y % 400 = 0) THEN 29 ELSE 28

\* C13: the key of a period is "interest-" followed by the period's year and
\* month, and two periods have the same key exactly when they are the same
\* calendar month.
C13_KeyPerCalendarMonth ==
    res.op = "importedId"
    => /\ res.value[1] = [prefix |-> "interest",
                          period |-> arg.cursor.y * 100 + arg.cursor.m]
       /\ res.value[1].period \div 100 = arg.cursor.y
       /\ res.value[1].period % 100 = arg.cursor.m
       /\ (res.value[1] = res.value[2])
            <=> (arg.cursor.y = arg.other.y /\ arg.cursor.m = arg.other.m)

\* the keys of the same month of two different years
C13_Witness ==
    /\ res.op = "importedId"
    /\ arg.cursor.m = arg.other.m
    /\ arg.cursor.y # arg.other.y
    /\ res.value[1] # res.value[2]

\* C14: for a booking day d >= 1 the booking date is day min(d, last day)
\* of the period's month (31 in a 30-day month gives 30, 30 in February
\* gives 28 or 29), and for no d is it a day of a later month.
C14_BookingDayClamp ==
    res.op = "calculateBookingDates"
    => LET p == arg.cursor
           d == arg.bookingDay
           b == res.value.bookDate
           last == CalendarLastDay(p.y, p.m)
       IN  /\ b.y * 12 + b.m <= p.y * 12 + p.m
           /\ d >= 1 => /\ b.y = p.y
                        /\ b.m = p.m
                        /\ b.d = IF d < last THEN d ELSE last
           /\ (d = 31 /\ p.m \in {4, 6, 9, 11}) => b.d = 30
           /\ (d = 30 /\ p.m = 2) => b.d = IF p.y = 2024 THEN 29 ELSE 28

\* booking day 31 in April
C14_Witness ==
    /\ res.op = "calculateBookingDates"
    /\ arg.bookingDay = 31
    /\ arg.cursor.m = 4
    /\ res.value.bookDate = [y |-> arg.cursor.y, m |-> 4, d |-> 30]

\* C15: for every booking day the configuration accepts, the booking date
\* has the year and the month of its period.
C15_BookingDateWithinPeriod ==
    res.op = "calculateBookingDates"
    => /\ res.value.bookDate.y = arg.cursor.y
       /\ res.value.bookDate.m = arg.cursor.m

\* C16: the snapshot date is the last calendar day of the month before the
\* period: 2024-04-30 for 2024-05, 31 December of the year before for a
\* January, 28 or 29 February for a March.
C16_SnapshotDate ==
    res.op = "calculateBookingDates"
    => LET p == arg.cursor
           a == res.value.asOfDate
       IN  /\ a.y * 12 + a.m = p.y * 12 + p.m - 1
           /\ a.m \in 1..12
           /\ a.d = CalendarLastDay(a.y, a.m)
           /\ p = [y |-> 2024, m |-> 5, d |-> 1]
                => a = [y |-> 2024, m |-> 4, d |-> 30]
           /\ p.m = 1 => a = [y |-> p.y - 1, m |-> 12, d |-> 31]
           /\ p.m = 3 => a = [y |-> p.y, m |-> 2,
                              d |-> IF p.y = 2024 THEN 29 ELSE 28]

\* the snapshot dates of March 2024 and of January 2024
C16_Witness ==
    /\ res.op = "calculateBookingDates"
    /\ \/ /\ arg.cursor = [y |-> 2024, m |-> 3, d |-> 1]
          /\ res.value.asOfDate = [y |-> 2024, m |-> 2, d |-> 29]
       \/ /\ arg.cursor = [y |-> 2024, m |-> 1, d |-> 1]
          /\ res.value.asOfDate = [y |-> 2023, m |-> 12, d |-> 31]


\* the number of calendar months from the resolved start month to today's
\* month, both included; zero when the start month is later
ExpectedPeriods ==
    IF MonthIndex(ResolvedStart) > MonthIndex(today) THEN 0
    ELSE MonthIndex(today) - MonthIndex(ResolvedStart) + 1

C11_PeriodCount ==
    (runNo > 0 /\ today # NoDate /\ cfg.fromDate.kind # "garbage")
    => /\ Len(PeriodsSeen) <= ExpectedPeriods
       /\ pc \in {"shutdown", "done"}
            => /\ Len(processed) = ExpectedPeriods
               /\ OutcomesOf("FAILED") = {}

\* C11: a run whose calls settle ends, and when it leaves the loop it has
\* processed exactly as many periods as there are calendar months from the
\* start month to today's month, none when the start month is later.
C11_Finiteness ==
    /\ []C11_PeriodCount
    /\ (pc \in InFlight) ~> (pc \in Ended)

\* a run over two months that ended after exactly two periods
C11_Witness ==
    /\ pc = "done"
    /\ out.allDone
    /\ ExpectedPeriods = 2
    /\ Len(processed) = 2

\* C12: with FROM_DATE set the first period is the first day of FROM_DATE's
\* month whatever its day, so a FROM_DATE later in today's month than today
\* still has that month processed; without FROM_DATE the first period is
\* the first day of today's month and the run has exactly one period.
C12_StartBasis ==
    (runNo > 0 /\ today # NoDate)
    => LET s == PeriodsSeen
           left == pc \in {"shutdown", "done"}
           fd == cfg.fromDate.date
       IN  /\ (cfg.fromDate.kind = "iso" /\ Len(s) > 0)
                => s[1] = [y |-> fd.y, m |-> fd.m, d |-> 1]
           /\ (cfg.fromDate.kind = "iso" /\ fd.y = today.y /\ fd.m = today.m
                 /\ left)
                => /\ Len(processed) = 1
                   /\ processed[1].period = [y |-> today.y, m |-> today.m,
                                             d |-> 1]
           /\ (cfg.fromDate.kind = "unset" /\ Len(s) > 0)
                => s[1] = [y |-> today.y, m |-> today.m, d |-> 1]
           /\ (cfg.fromDate.kind = "unset" /\ left) => Len(processed) = 1

\* FROM_DATE is the 15th of today's month, today the 10th, and the month
\* was processed
C12_Witness ==
    /\ pc = "done"
    /\ cfg.fromDate.kind = "iso"
    /\ cfg.fromDate.date.y = today.y
    /\ cfg.fromDate.date.m = today.m
    /\ cfg.fromDate.date.d > today.d
    /\ Len(processed) = 1
    /\ processed[1].period.m = today.m


\* the positions in the run's call log of the calls with an operation of
\* ops made for period p
CallsFor(p, ops) ==
    {i \in CallsWithOp(ops) : calls[i].period = p.y * 100 + p.m}

\* C17: a committed period has exactly one mutating call, an addTransactions
\* submission of exactly one record; a skipped or simulated period has none.
C17_OneMutationPerBookedPeriod ==
    /\ pc = "addTransactions" => Len(req.transactions) = 1
    /\ \A i \in 1..Len(processed) :
         LET p == processed[i].period
             o == processed[i].outcome
         IN  /\ o = "COMMITTED"
                  => /\ Cardinality(CallsFor(p, MutatingOps)) = 1
                     /\ CallsFor(p, MutatingOps) = CallsFor(p, {"addTransactions"})
             /\ o \in {"SKIPPED", "SIMULATED"} => CallsFor(p, MutatingOps) = {}

\* C17: a committed period has exactly one addTransactions submission of
\* exactly one record, which adds one record to the ledger; the variant that
\* sets the budget makes one setBudgetAmount call for the period before it
\* and the service none; a skipped or simulated period has no mutating call.
C17_OneSubmissionPerCommittedPeriod ==
    /\ pc = "addTransactions" => Len(req.transactions) = 1
    /\ runNo > 0
         => Len(ledger) = Len(snap.ledger)
                            + Cardinality(OutcomesOf("COMMITTED"))
    /\ \A i \in 1..Len(processed) :
         LET p == processed[i].period
             o == processed[i].outcome
             adds == CallsFor(p, {"addTransactions"})
             sets == CallsFor(p, {"setBudgetAmount"})
         IN  /\ o = "COMMITTED"
                  => /\ Cardinality(adds) = 1
                     /\ Cardinality(sets) =
                          IF env.variant = "inline" THEN 1 ELSE 0
                     /\ \A b \in sets : \A a \in adds : b < a
             /\ o \in {"SKIPPED", "SIMULATED"} => CallsFor(p, MutatingOps) = {}

\* a run of the budget-setting variant that committed a period and
\* simulated or skipped none
C17_Witness ==
    /\ pc = "done"
    /\ env.variant = "inline"
    /\ OutcomesOf("COMMITTED") # {}
    /\ \E i \in OutcomesOf("COMMITTED") :
         /\ Cardinality(CallsFor(processed[i].period, MutatingOps)) = 2
         /\ CountKey(ledger, InterestKey(processed[i].period)) >= 1

\* C18: every period committed by a run has the interest category's budget
\* for that month set to the booked amount, by a setBudgetAmount call made
\* before the period's addTransactions.
C18_BudgetSetBeforeTransaction ==
    \A i \in OutcomesOf("COMMITTED") :
       LET p == processed[i].period
           adds == CallsFor(p, {"addTransactions"})
           sets == CallsFor(p, {"setBudgetAmount"})
       IN  /\ sets # {}
           /\ \A b \in sets : \A a \in adds : b < a
           /\ \E e \in budget :
                /\ e.period = p.y * 100 + p.m
                /\ e.category = category.id
                /\ \E k \in 1..Len(ledger) :
                     /\ ledger[k].imported_id = InterestKey(p)
                     /\ ledger[k].amount = e.amount

\* the last day of the calendar month before period p
PreviousMonthEnd(p) ==
    IF p.m = 1 THEN [y |-> p.y - 1, m |-> 12, d |-> 31]
    ELSE [y |-> p.y, m |-> p.m - 1, d |-> CalendarLastDay(p.y, p.m - 1)]

\* C19: the submission for a period goes to the resolved account with one
\* record whose imported_id is the period's key, whose date is the booking
\* date, whose amount is computed from the balance as of the month before,
\* whose category is the resolved category and which is cleared, with
\* runTransfers and learnCategories off; the ledger holds it as submitted.
C19_CommittedRecordContent ==
    /\ pc = "addTransactions"
         => LET t == req.transactions[1]
                p == cursor
                last == CalendarLastDay(p.y, p.m)
                day == IF cfg.bookingDay < last THEN cfg.bookingDay ELSE last
                bal == LedgerGetAccountBalance(ledger, mortgage.id,
                                               PreviousMonthEnd(p))
            IN  /\ mortgage \in accounts
                /\ mortgage.name = cfg.mortgageAccount
                /\ category \in categories
                /\ category.name = cfg.interestCategory
                /\ req.accountId = mortgage.id
                /\ t.account = mortgage.id
                /\ t.imported_id = InterestKey(p)
                /\ t.date = p.y * 10000 + p.m * 100 + day
                /\ t.amount = IF env.variant = "service"
                              THEN CalculateMonthlyInterest(bal, cfg.annualRate)
                              ELSE CalculateMonthlyInterestInline(bal,
                                                                  cfg.annualRate)
                /\ t.category = category.id
                /\ t.cleared
                /\ req.options = [runTransfers |-> FALSE,
                                  learnCategories |-> FALSE]
    /\ \A k \in (IF runNo > 0 THEN Len(snap.ledger) + 1 ELSE Len(ledger) + 1)
                ..Len(ledger) :
         /\ ledger[k].account = mortgage.id
         /\ ledger[k].category = category.id
         /\ ledger[k].cleared
         /\ \E i \in OutcomesOf("COMMITTED") :
              ledger[k].imported_id = InterestKey(processed[i].period)

\* the submission for a January, computed from a balance that holds the
\* interest booked for December
C19_Witness ==
    /\ pc = "addTransactions"
    /\ cursor.m = 1
    /\ Len(ledger) > 1
    /\ req.transactions[1].amount > 0
    /\ req.transactions[1].imported_id = InterestKey(cursor)

\* C20: the records that were in the ledger when the run started are still
\* there, unchanged and in place, and a period whose key was in the ledger
\* when the run started is neither committed nor simulated.
C20_NoAdjustment ==
    /\ runNo > 0
         => /\ Len(ledger) >= Len(snap.ledger)
            /\ SubSeq(ledger, 1, Len(snap.ledger)) = snap.ledger
    /\ \A i \in 1..Len(processed) :
         CountKey(snap.ledger, InterestKey(processed[i].period)) > 0
            => processed[i].outcome \notin {"COMMITTED", "SIMULATED"}


\* no per-period work was done in this run: no period reached, no existence
\* check, balance fetch or commit issued, ledger and budget as at the start
NoPeriodWork ==
    /\ processed = <<>>
    /\ cursor = NoDate
    /\ CallsWithOp(PeriodCalls) = {}
    /\ ledger = snap.ledger
    /\ budget = snap.budget

NamedAccounts == {a \in accounts : a.name = cfg.mortgageAccount}
NamedCategories == {c \in categories : c.name = cfg.interestCategory}

\* C21: a run resolves the account and the category to the listed entry
\* with exactly the configured name; when no account or no category has
\* that name the run never gets past the listings, does no per-period work,
\* and ends with the not-found error once the listing has returned.
C21_ResolutionFailure ==
    (runNo > 0 /\ cfg # NoCfg)
    => /\ mortgage # NoAccount => mortgage \in NamedAccounts
       /\ category # NoCategory => category \in NamedCategories
       /\ (NamedAccounts = {} \/ NamedCategories = {})
            => /\ pc \in SetupCalls \cup {"failed", "killed"}
               /\ NoPeriodWork
               /\ ~out.allDone
       /\ (NamedAccounts = {} /\ pc = "failed" /\ out.error # "rejected")
            => out.error = "Account not found"
       /\ (NamedAccounts # {} /\ NamedCategories = {} /\ pc = "failed"
             /\ out.error # "rejected")
            => out.error = "Category not found"

\* the account is listed, the category is not, and the run has failed after
\* both listings
C21_Witness ==
    /\ pc = "failed"
    /\ out.error = "Category not found"
    /\ mortgage \in accounts
    /\ \E i \in 1..Len(calls) : calls[i].op = "getCategories"

\* C22: with a FROM_DATE that is not a calendar date the run does no
\* per-period work and never reaches shutdown or "All done."; it ends with
\* the invalid-date error once both names are resolved.
C22_InvalidStartDate ==
    (runNo > 0 /\ cfg # NoCfg /\ cfg.fromDate.kind = "garbage")
    => /\ pc \in SetupCalls \cup {"failed", "killed"}
       /\ NoPeriodWork
       /\ ~out.allDone
       /\ ~out.shutdownCalled
       /\ (pc = "failed" /\ category # NoCategory)
            => out.error = "Invalid FROM_DATE"

C22_Witness ==
    /\ pc = "failed"
    /\ cfg.fromDate.kind = "garbage"
    /\ out.error = "Invalid FROM_DATE"
    /\ today # NoDate
    /\ Len(calls) = 4


\* C23: when the endpoint URL, the password or the sync id is absent or
\* empty, every start of the program ends at once with exit status 1: no
\* collaborator call is issued, no session is opened, nothing is changed.
C23_MissingConnectionSettings ==
    (runNo > 0 /\ \E k \in RequiredVars : env.required[k] # "set")
    => /\ pc = "failed"
       /\ out.error = "Missing env var"
       /\ calls = <<>>
       /\ req = NoReq
       /\ session = "none"
       /\ ~out.allDone
       /\ NoPeriodWork

\* the program was started with an empty password
C23_Witness ==
    /\ runNo > 0
    /\ env.required["ACTUAL_PASSWORD"] = "empty"
    /\ pc = "failed"
    /\ calls = <<>>


SetupOrder == <<"init", "downloadBudget", "getAccounts", "getCategories">>

\* C30: the call log of a run starts with init, downloadBudget, getAccounts,
\* getCategories in that order; every later call is a per-period call or the
\* final shutdown; within a period the balance fetch directly follows the
\* existence check and the commit follows the balance fetch (with the
\* budget call between them in the variant that sets the budget); the
\* existence checks are for strictly later periods; and the only call in
\* flight is the last one of the log.
C30_CallOrdering ==
    LET n == Len(calls)
    IN  /\ \A i \in 1..n :
             LET c == calls[i]
             IN  /\ i <= 4 => c.op = SetupOrder[i] /\ c.period = 0
                 /\ i > 4 => c.op \in PeriodCalls \cup {"shutdown"}
                 /\ c.op = "getTransactions"
                      => /\ i > 4
                         /\ c.period > calls[i - 1].period
                         /\ \A j \in 1..(i - 1) : calls[j].period < c.period
                 /\ c.op = "getAccountBalance"
                      => /\ calls[i - 1].op = "getTransactions"
                         /\ calls[i - 1].period = c.period
                 /\ c.op = "setBudgetAmount"
                      => /\ calls[i - 1].op = "getAccountBalance"
                         /\ calls[i - 1].period = c.period
                 /\ c.op = "addTransactions"
                      => /\ calls[i - 1].op =
                              IF env.variant = "service"
                              THEN "getAccountBalance" ELSE "setBudgetAmount"
                         /\ calls[i - 1].period = c.period
                 /\ c.op = "shutdown" => i = n /\ i > 4
        /\ pc \in InFlight => /\ n > 0
                              /\ calls[n].op = pc
                              /\ req.op = pc
        /\ pc \notin InFlight => req = NoReq

\* a run that committed two periods and shut down
C30_Witness ==
    /\ pc = "done"
    /\ Cardinality(OutcomesOf("COMMITTED")) = 2
    /\ Len(calls) >= 11
    /\ calls[Len(calls)].op = "shutdown"


\* the three functions named calculateMonthlyInterest
MonthlyInterestOps ==
    {"calculateMonthlyInterest", "calculateMonthlyInterestInline",
     "calculateMonthlyInterestCompound"}

\* v is the integer nearest to n / den (n / den within a half of v)
IsNearest(v, n, den) ==
    /\ 2 * (v * den - n) <= den
    /\ 2 * (n - v * den) <= den

\* C24: calculateMonthlyInterest gives the compound-interest amounts at
\* 3.4%: 27901 for 10,000,000 cents, 55802 for 20,000,000, 13951 for
\* 5,000,000 and 83703 for 30,000,000.
C24_CompoundFormula ==
    (res.op \in MonthlyInterestOps /\ arg.rate = 340)
    => /\ arg.balance = 10000000 => res.value = 27901
       /\ arg.balance = 20000000 => res.value = 55802
       /\ arg.balance = 5000000 => res.value = 13951
       /\ arg.balance = 30000000 => res.value = 83703

\* C25: calculateMonthlyInterest(balance, rate) is the integer nearest to
\* balance * rate * 30 / 365; it is 986 for balance 100,000 and rate 0.12.
C25_Fixed30DayFormula ==
    res.op \in MonthlyInterestOps
    => /\ (arg.balance = 100000 /\ arg.rate = 1200) => res.value = 986
       /\ (arg.balance <= 100000 /\ arg.balance >= -100000)
            => IsNearest(res.value, arg.balance * arg.rate * 3, 365000)

\* C26: the calculateMonthlyInterest a run uses gives 0 for rate 0, 0 for
\* balance 0, and for a positive rate an amount that is never of the
\* opposite sign to the balance.
C26_SignedAndZeroInputs ==
    res.op \in {"calculateMonthlyInterest", "calculateMonthlyInterestInline"}
    => /\ arg.rate = 0 => res.value = 0
       /\ arg.balance = 0 => res.value = 0
       /\ (arg.rate > 0 /\ arg.balance < 0) => res.value <= 0
       /\ (arg.rate > 0 /\ arg.balance > 0) => res.value >= 0

\* C27: the amount for the negated balance is the negated amount.
C27_RoundingSymmetry ==
    res.op \in {"calculateMonthlyInterest", "calculateMonthlyInterestCompound"}
    => res.negated = -res.value

C29_DailyMethod ==
    res.op = "calculateMonthlyInterestDailyMethod"
    => LET days == CalendarLastDay(arg.cursor.y, arg.cursor.m)
           daysOther == CalendarLastDay(arg.other.y, arg.other.m)
       IN  /\ (arg.balance <= 1825 /\ arg.balance >= -1825)
                => IsNearest(res.value, arg.balance * arg.rate * days, 3650000)
           /\ (arg.balance = 10000000 /\ arg.rate = 340)
                => /\ days = 31 => res.value = 28877
                   /\ days = 30 => res.value = 27945
                   /\ days = 29 => res.value = 27014
                   /\ days = 28 => res.value = 26082
                   /\ arg.cursor.m = 2
                        => days = IF arg.cursor.y = 2024 THEN 29 ELSE 28
           /\ days = daysOther => res.value = res.again
           /\ (arg.balance > 0 /\ arg.rate > 0 /\ days >= daysOther)
                => res.value >= res.again

\* February 2024 against February 2023
C29_Witness ==
    /\ res.op = "calculateMonthlyInterestDailyMethod"
    /\ arg.cursor = [y |-> 2024, m |-> 2, d |-> 1]
    /\ arg.other = [y |-> 2023, m |-> 2, d |-> 1]
    /\ arg.balance = 10000000
    /\ arg.rate = 340
    /\ res.value = 27014
    /\ res.again = 26082

(***************************************************************************)
(* The per-period state machine of a run.                                  *)
(***************************************************************************)
PeriodOutcomes == {"SKIPPED", "SIMULATED", "COMMITTED", "FAILED"}

C31_PeriodStates ==
    runNo > 0
    => /\ \A i \in 1..Len(processed) : processed[i].outcome \in PeriodOutcomes
       /\ \A i, j \in 1..Len(processed) :
            processed[i].period = processed[j].period => i = j
       /\ \A i \in 1..(Len(processed) - 1) :
            /\ processed[i].outcome # "FAILED"
            /\ MonthIndex(processed[i + 1].period)
                 = MonthIndex(processed[i].period) + 1
       /\ OutcomesOf("FAILED") # {}
            => /\ OutcomesOf("FAILED") = {Len(processed)}
               /\ pc = "failed"
       /\ pc \in PeriodCalls
            => /\ OutcomesOf("FAILED") = {}
               /\ \A i \in 1..Len(processed) : processed[i].period # cursor
               /\ Len(processed) > 0
                    => MonthIndex(cursor)
                         = MonthIndex(processed[Len(processed)].period) + 1

C31_PeriodEnds ==
    (/\ pc \in PeriodCalls
     /\ pc' # "killed"
     /\ pc' \notin PeriodCalls \/ cursor' # cursor)
    => /\ Len(processed') = Len(processed) + 1
       /\ SubSeq(processed', 1, Len(processed)) = processed
       /\ processed'[Len(processed')].period = cursor
       /\ processed'[Len(processed')].outcome \in PeriodOutcomes

\* C31: every period a run leaves without being terminated gets exactly one
\* of the outcomes SKIPPED, SIMULATED, COMMITTED, FAILED; the periods that
\* ended SKIPPED, SIMULATED or COMMITTED are consecutive months in order, the
\* period in progress is the single month after them, and a FAILED period is
\* the only one of its run and the last one attempted.
C31_PeriodStateMachine ==
    /\ []C31_PeriodStates
    /\ [][C31_PeriodEnds]_vars

\* a run that committed its first period and failed in its second
C31_Witness ==
    /\ pc = "failed"
    /\ Len(processed) = 2
    /\ processed[1].outcome = "COMMITTED"
    /\ processed[2].outcome = "FAILED"

(***************************************************************************)
(* The window of the existence query.                                      *)
(***************************************************************************)
C32_QueryWindow ==
    pc = "getTransactions"
    => /\ mortgage.name = cfg.mortgageAccount
       /\ req.accountId = mortgage.id
       /\ req.startDate = cursor.y * 10000 + cursor.m * 100 + 1
       /\ FormatDay(req.endDate) >= FormatDay(today)

C32_PeriodsOfToday ==
    (runNo > 0 /\ today # NoDate)
    => /\ \A i \in 1..Len(PeriodsSeen) :
            MonthIndex(PeriodsSeen[i]) <= MonthIndex(today)
       /\ pc \in {"shutdown", "done"}
            => {PeriodsSeen[i] : i \in 1..Len(PeriodsSeen)} = RangeMonths

C32_TodayCaptured ==
    (runNo' = runNo /\ today # NoDate) => today' = today

\* C32: the existence query of every period is issued for the resolved
\* account, from the first day of the period's month to a day not earlier
\* than the today captured when the run started, also when the clock moves
\* on during the run; today does not change during a run, and the periods
\* processed are the months from the start month to that today's month.
C32_ExistenceWindow ==
    /\ []C32_QueryWindow
    /\ []C32_PeriodsOfToday
    /\ [][C32_TodayCaptured]_vars

\* the clock moved on during the run: the query of the second period ends
\* after the captured today
C32_Witness ==
    /\ pc = "getTransactions"
    /\ Len(processed) >= 1
    /\ FormatDay(clock) > FormatDay(today)
    /\ req.endDate = clock

(***************************************************************************)
(* A failing shutdown.                                                     *)
(***************************************************************************)
C33_AfterCleanupFailure ==
    /\ out.shutdownError
         => /\ pc = "done"
            /\ out.allDone
            /\ out.shutdownCalled
            /\ out.error = "none"
            /\ OutcomesOf("FAILED") = {}
            /\ {processed[i].period : i \in 1..Len(processed)} = RangeMonths
    /\ out.error # "none" => ~out.shutdownError

C33_CleanupStep ==
    (pc = "shutdown" /\ pc' \notin {"shutdown", "killed"})
    => /\ pc' = "done"
       /\ out'.allDone
       /\ out'.error = out.error
       /\ processed' = processed
       /\ calls' = calls
       /\ ledger' = ledger
       /\ budget' = budget

\* C33: when shutdown throws after all periods were processed, the error is
\* logged and swallowed: the run is done with "All done.", no error is
\* reported, and the outcomes of the periods and the ledger are what they
\* were before the shutdown; a run that failed has no cleanup failure on
\* top of its error.
C33_CleanupFailureSwallowed ==
    /\ []C33_AfterCleanupFailure
    /\ [][C33_CleanupStep]_vars

\* shutdown threw after a run that committed a period
C33_Witness ==
    /\ out.shutdownError
    /\ pc = "done"
    /\ OutcomesOf("COMMITTED") # {}

\* C36: the record a run submits for a period is dated within the window
\* the existence check of that period queries, from the first day of the
\* period's month to today, whatever the booking day and the day of today.
C36_CommittedRecordInWindow ==
    pc = "addTransactions"
    => \A i \in 1..Len(req.transactions) :
         /\ req.transactions[i].date >= FormatFirst(cursor)
         /\ req.transactions[i].date <= FormatDay(today)

\* C37: for every period and booking day the snapshot date is before the
\* booking date, and the booking date is not after the snapshot date of the
\* following period.
C37_DateOrdering ==
    res.op = "calculateBookingDates"
    => LET following == CalculateBookingDates(AddMonths(arg.cursor),
                                              arg.bookingDay)
       IN  /\ FormatDay(res.value.asOfDate) < FormatDay(res.value.bookDate)
           /\ FormatDay(res.value.bookDate) <= FormatDay(following.asOfDate)

(***************************************************************************)
(* What an aborted run leaves in the ledger.                               *)
(***************************************************************************)
\* the months (yyyymm) of the periods this run committed
CommittedMonths ==
    {FormatMonth(processed[i].period) : i \in OutcomesOf("COMMITTED")}

\* the records this run added to the ledger
AddedRecords ==
    {ledger[i] : i \in (Len(snap.ledger) + 1)..Len(ledger)}

\* C38: when a run aborted, every record it added and every budget amount
\* it set belongs to a period that ended COMMITTED: nothing is left for the
\* period it aborted in.
C38_NoPartialBooking ==
    (runNo > 0 /\ pc = "failed")
    => /\ \A t \in AddedRecords : t.imported_id.period \in CommittedMonths
       /\ \A e \in budget \ snap.budget : e.period \in CommittedMonths

\* C38, amended: when a run aborted or was terminated, every record it
\* added belongs to a period that ended COMMITTED; a budget amount it set
\* belongs to such a period or, in the budget-setting variant, to the period
\* whose addTransactions was in flight when the run stopped; the service
\* sets no budget amount.
C38_NoRecordOnFailure ==
    (runNo > 0 /\ pc \in {"failed", "killed"})
    => /\ \A t \in AddedRecords : t.imported_id.period \in CommittedMonths
       /\ \A e \in budget \ snap.budget :
            \/ e.period \in CommittedMonths
            \/ /\ env.variant = "inline"
               /\ e.period = FormatMonth(cursor)
               /\ calls[Len(calls)] = Call("addTransactions", cursor)
       /\ env.variant = "service" => budget = snap.budget

\* the budget-setting variant failed in addTransactions after the budget
\* amount of the period was set
C38_Witness ==
    /\ pc = "failed"
    /\ env.variant = "inline"
    /\ Len(calls) > 0
    /\ calls[Len(calls)] = Call("addTransactions", cursor)
    /\ \E e \in budget \ snap.budget : e.period = FormatMonth(cursor)
    /\ \A t \in AddedRecords : t.imported_id.period # FormatMonth(cursor)

(***************************************************************************)
(* Two runs of the program side by side.  Each run has its own process     *)
(* state: pc, req, cfg, mortgage, category, today, cursor, loc, session,   *)
(* calls, processed and out are functions of the run.  The two runs work   *)
(* on one ledger (env.shared) or each on its own copy of the same ledger;  *)
(* ledger, budget and accounts are functions of the book.  Every call      *)
(* returns, and the clock stands on one day.                               *)
(***************************************************************************)
Runs == {1, 2}

\* the book (ledger, budget, account listing) the run is connected to
BookOf(r) == IF env.shared THEN 1 ELSE r

Up(f, r, v) == [f EXCEPT ![r] = v]

\* a finished period with the amount computed for it (0 when skipped)
Booked(cur, o, amountCents) ==
    [period |-> cur, outcome |-> o, amount |-> amountCents]

TwoRunsInit ==
    /\ clock \in ClockDates
    /\ env \in [shared : BOOLEAN, variant : Variants, bookingDay : BookingDays,
                annualRate : AnnualRatesBp, fromDate : FromDates,
                required : {AllSet}]
    /\ accounts \in [Runs -> AccountListings]
    /\ env.shared => accounts[1] = accounts[2]
    /\ categories \in CategoryListings
    /\ \E b \in OpeningBalances :
         ledger = [k \in Runs |-> <<OpeningTransaction(b)>>]
    /\ budget = [k \in Runs |-> {}]
    /\ runNo = 0
    /\ pc = [r \in Runs |-> "idle"]
    /\ req = [r \in Runs |-> NoReq]
    /\ cfg = [r \in Runs |-> NoCfg]
    /\ mortgage = [r \in Runs |-> NoAccount]
    /\ category = [r \in Runs |-> NoCategory]
    /\ today = [r \in Runs |-> NoDate]
    /\ cursor = [r \in Runs |-> NoDate]
    /\ loc = [r \in Runs |-> NoLoc]
    /\ session = [r \in Runs |-> "none"]
    /\ calls = [r \in Runs |-> <<>>]
    /\ processed = [r \in Runs |-> <<>>]
    /\ out = [r \in Runs |-> NoOut]
    /\ snap = [ledger |-> ledger[1], budget |-> budget[1]]
    /\ prev = NoPrev
    /\ arg = NoArg
    /\ res = NoRes

\* what no step of a run changes
fixedVars == <<arg, res, clock, env, accounts, categories, runNo, snap, prev>>

RunThrow(r, kind) ==
    /\ pc' = Up(pc, r, "failed")
    /\ req' = Up(req, r, NoReq)
    /\ out' = Up(out, r, [out[r] EXCEPT !.error = kind])

\* the head of the while loop of run r with the cursor at c
RunLoopFrom(r, c, t) ==
    /\ cursor' = Up(cursor, r, c)
    /\ loc' = Up(loc, r, NoLoc)
    /\ IF ~IsAfter(c, t)
       THEN /\ pc' = Up(pc, r, "getTransactions")
            /\ req' = Up(req, r,
                       [op |-> "getTransactions", accountId |-> mortgage[r].id,
                        startDate |-> FormatFirst(c),
                        endDate |-> IF env.variant = "service" THEN clock
                                    ELSE t])
            /\ calls' = Up(calls, r, Append(calls[r], Call("getTransactions", c)))
            /\ out' = out
       ELSE /\ pc' = Up(pc, r, "shutdown")
            /\ req' = Up(req, r, [op |-> "shutdown"])
            /\ calls' = Up(calls, r, Append(calls[r], Call("shutdown", NoDate)))
            /\ out' = Up(out, r, [out[r] EXCEPT !.shutdownCalled = TRUE])

RunNextPeriod(r, o, amountCents) ==
    /\ processed' = Up(processed, r,
                       Append(processed[r], Booked(cursor[r], o, amountCents)))
    /\ RunLoopFrom(r, AddMonths(cursor[r]), today[r])

RunStart(r) ==
    /\ pc[r] = "idle"
    /\ \E dry \in BOOLEAN : cfg' = Up(cfg, r, LoadConfig(env, dry))
    /\ IF cfg'[r] = NoCfg
       THEN /\ pc' = Up(pc, r, "failed")
            /\ req' = req
            /\ calls' = calls
            /\ out' = Up(out, r, [NoOut EXCEPT !.error = "Missing env var"])
       ELSE /\ pc' = Up(pc, r, "init")
            /\ req' = Up(req, r, [op |-> "init"])
            /\ calls' = Up(calls, r, <<Call("init", NoDate)>>)
            /\ out' = out
    /\ UNCHANGED <<fixedVars, ledger, budget, mortgage, category, today,
                   cursor, loc, session, processed>>

RunInitReturns(r) ==
    /\ pc[r] = "init"
    /\ session' = Up(session, r, "open")
    /\ pc' = Up(pc, r, "downloadBudget")
    /\ req' = Up(req, r, [op |-> "downloadBudget"])
    /\ calls' = Up(calls, r, Append(calls[r], Call("downloadBudget", NoDate)))
    /\ UNCHANGED <<fixedVars, ledger, budget, cfg, mortgage, category, today,
                   cursor, loc, processed, out>>

RunDownloadBudgetReturns(r) ==
    /\ pc[r] = "downloadBudget"
    /\ pc' = Up(pc, r, "getAccounts")
    /\ req' = Up(req, r, [op |-> "getAccounts"])
    /\ calls' = Up(calls, r, Append(calls[r], Call("getAccounts", NoDate)))
    /\ UNCHANGED <<fixedVars, ledger, budget, cfg, mortgage, category, today,
                   cursor, loc, session, processed, out>>

RunGetAccountsReturnsRejectsOnBudget(r) ==
    /\ pc[r] = "getAccounts"
    /\ LET found == FindMortgageAccount(accounts[BookOf(r)],
                                        cfg[r].mortgageAccount)
       IN  IF found = NoAccount \/ ~found.offbudget
           THEN /\ RunThrow(r, "Account not found")
                /\ UNCHANGED <<mortgage, calls>>
           ELSE /\ mortgage' = Up(mortgage, r, found)
                /\ out' = Up(out, r, [out[r] EXCEPT !.warned = ~found.offbudget])
                /\ pc' = Up(pc, r, "getCategories")
                /\ req' = Up(req, r, [op |-> "getCategories"])
                /\ calls' = Up(calls, r,
                               Append(calls[r], Call("getCategories", NoDate)))
    /\ UNCHANGED <<fixedVars, ledger, budget, cfg, category, today, cursor,
                   loc, session, processed>>
RunGetAccountsReturns(r) ==
    /\ pc[r] = "getAccounts"
    /\ LET found == FindMortgageAccount(accounts[BookOf(r)],
                                        cfg[r].mortgageAccount)
       IN  IF found = NoAccount
           THEN /\ RunThrow(r, "Account not found")
                /\ UNCHANGED <<mortgage, calls>>
           ELSE /\ mortgage' = Up(mortgage, r, found)
                /\ out' = Up(out, r, [out[r] EXCEPT !.warned = ~found.offbudget])
                /\ pc' = Up(pc, r, "getCategories")
                /\ req' = Up(req, r, [op |-> "getCategories"])
                /\ calls' = Up(calls, r,
                               Append(calls[r], Call("getCategories", NoDate)))
    /\ UNCHANGED <<fixedVars, ledger, budget, cfg, category, today, cursor,
                   loc, session, processed>>

RunGetCategoriesReturns(r) ==
    /\ pc[r] = "getCategories"
    /\ LET found == FindInterestCategory(categories, cfg[r].interestCategory)
           t == clock
           start == GetCursorStartDate(cfg[r], t)
       IN  IF found = NoCategory
           THEN /\ RunThrow(r, "Category not found")
                /\ UNCHANGED <<category, today, cursor, loc, calls>>
           ELSE IF IsNaNDate(start)
           THEN /\ category' = Up(category, r, found)
                /\ today' = Up(today, r, t)
                /\ RunThrow(r, "Invalid FROM_DATE")
                /\ UNCHANGED <<cursor, loc, calls>>
           ELSE /\ category' = Up(category, r, found)
                /\ today' = Up(today, r, t)
                /\ RunLoopFrom(r, start, t)
    /\ UNCHANGED <<fixedVars, ledger, budget, cfg, mortgage, session,
                   processed>>

RunGetTransactionsReturns(r) ==
    /\ pc[r] = "getTransactions"
    /\ LET existing == LedgerGetTransactions(ledger[BookOf(r)],
                           req[r].accountId, req[r].startDate, req[r].endDate)
           importedId == ImportedId(cursor[r])
           posted == IF env.variant = "service"
                     THEN HasPostedInterest(existing, importedId)
                     ELSE HasPostedInterestInline(existing, importedId)
           dates == CalculateBookingDates(cursor[r], cfg[r].bookingDay)
       IN  IF posted
           THEN RunNextPeriod(r, "SKIPPED", 0)
           ELSE IF IsNaNDate(dates.bookDate) \/ IsNaNDate(dates.asOfDate)
           THEN /\ RunThrow(r, "Invalid booking or asOf date")
                /\ processed' = Up(processed, r,
                       Append(processed[r], Booked(cursor[r], "FAILED", 0)))
                /\ UNCHANGED <<cursor, loc, calls>>
           ELSE /\ loc' = Up(loc, r, [bookDate |-> dates.bookDate,
                                      asOfDate |-> dates.asOfDate,
                                      interestCents |-> 0])
                /\ pc' = Up(pc, r, "getAccountBalance")
                /\ req' = Up(req, r, [op |-> "getAccountBalance",
                                      accountId |-> mortgage[r].id,
                                      asOfDate |-> dates.asOfDate])
                /\ calls' = Up(calls, r,
                       Append(calls[r], Call("getAccountBalance", cursor[r])))
                /\ UNCHANGED <<cursor, processed, out>>
    /\ UNCHANGED <<fixedVars, ledger, budget, cfg, mortgage, category, today,
                   session>>

RunGetAccountBalanceReturns(r) ==
    /\ pc[r] = "getAccountBalance"
    /\ LET balanceCents == LedgerGetAccountBalance(ledger[BookOf(r)],
                               req[r].accountId, req[r].asOfDate)
           interestCents ==
               IF env.variant = "service"
               THEN CalculateMonthlyInterest(balanceCents, cfg[r].annualRate)
               ELSE CalculateMonthlyInterestInline(balanceCents,
                                                   cfg[r].annualRate)
           next ==
               IF env.variant = "service"
               THEN PostInterestTransaction(mortgage[r].id, interestCents,
                        category[r].id, ImportedId(cursor[r]), loc[r].bookDate,
                        cfg[r].dryRun)
               ELSE InlineBudgetRequest(FormatMonth(cursor[r]), category[r].id,
                                        interestCents, cfg[r].dryRun)
       IN  IF next = NoReq
           THEN RunNextPeriod(r, "SIMULATED", interestCents)
           ELSE /\ loc' = Up(loc, r,
                             [loc[r] EXCEPT !.interestCents = interestCents])
                /\ pc' = Up(pc, r, next.op)
                /\ req' = Up(req, r, next)
                /\ calls' = Up(calls, r, Append(calls[r], Call(next.op, cursor[r])))
                /\ UNCHANGED <<cursor, processed, out>>
    /\ UNCHANGED <<fixedVars, ledger, budget, cfg, mortgage, category, today,
                   session>>

RunSetBudgetAmountReturns(r) ==
    /\ pc[r] = "setBudgetAmount"
    /\ budget' = Up(budget, BookOf(r),
                    LedgerSetBudgetAmount(budget[BookOf(r)], req[r].period,
                                          req[r].categoryId, req[r].amountCents))
    /\ pc' = Up(pc, r, "addTransactions")
    /\ req' = Up(req, r,
               [op |-> "addTransactions", accountId |-> mortgage[r].id,
                transactions |-> <<InterestTransaction(mortgage[r].id,
                     loc[r].interestCents, category[r].id,
                     ImportedId(cursor[r]), loc[r].bookDate)>>,
                options |-> [runTransfers |-> FALSE, learnCategories |-> FALSE]])
    /\ calls' = Up(calls, r, Append(calls[r], Call("addTransactions", cursor[r])))
    /\ UNCHANGED <<fixedVars, ledger, cfg, mortgage, category, today, cursor,
                   loc, session, processed, out>>

RunAddTransactionsReturnsChecksKey(r) ==
    /\ pc[r] = "addTransactions"
    /\ ledger' = Up(ledger, BookOf(r),
                    IF HasPostedInterest(ledger[BookOf(r)],
                                         ImportedId(cursor[r]))
                    THEN ledger[BookOf(r)]
                    ELSE ledger[BookOf(r)] \o req[r].transactions)
    /\ RunNextPeriod(r, "COMMITTED", loc[r].interestCents)
    /\ UNCHANGED <<fixedVars, budget, cfg, mortgage, category, today, session>>
RunAddTransactionsReturns(r) ==
    /\ pc[r] = "addTransactions"
    /\ ledger' = Up(ledger, BookOf(r),
                    ledger[BookOf(r)] \o req[r].transactions)
    /\ RunNextPeriod(r, "COMMITTED", loc[r].interestCents)
    /\ UNCHANGED <<fixedVars, budget, cfg, mortgage, category, today, session>>

RunShutdownReturns(r) ==
    /\ pc[r] = "shutdown"
    /\ session' = Up(session, r, "closed")
    /\ pc' = Up(pc, r, "done")
    /\ req' = Up(req, r, NoReq)
    /\ out' = Up(out, r, [out[r] EXCEPT !.allDone = TRUE])
    /\ UNCHANGED <<fixedVars, ledger, budget, cfg, mortgage, category, today,
                   cursor, loc, calls, processed>>

TwoRunsNext ==
    \E r \in Runs :
        \/ RunStart(r)
        \/ RunInitReturns(r)
        \/ RunDownloadBudgetReturns(r)
        \/ RunGetAccountsReturns(r)
        \/ RunGetCategoriesReturns(r)
        \/ RunGetTransactionsReturns(r)
        \/ RunGetAccountBalanceReturns(r)
        \/ RunSetBudgetAmountReturns(r)
        \/ RunAddTransactionsReturns(r)
        \/ RunShutdownReturns(r)

TwoRunsSpec == TwoRunsInit /\ [][TwoRunsNext]_vars

\* the number of times run r committed period p
CommitsOf(r, p) ==
    Cardinality({i \in 1..Len(processed[r]) :
                    /\ processed[r][i].outcome = "COMMITTED"
                    /\ processed[r][i].period = p})

C35_EveryCommitAddsARecord ==
    env.shared
    => \A p \in HorizonMonths :
         CountKey(ledger[1], InterestKey(p)) = CommitsOf(1, p) + CommitsOf(2, p)

C35_CommitStep ==
    \A r \in Runs :
        (pc[r] = "addTransactions" /\ pc'[r] # "addTransactions")
        => /\ Len(ledger'[BookOf(r)]) = Len(ledger[BookOf(r)]) + 1
           /\ ledger'[BookOf(r)][Len(ledger'[BookOf(r)])].imported_id
                = InterestKey(cursor[r])

\* C35: two runs on one ledger are not kept apart: a run whose existence
\* check found no record commits whatever the ledger holds by then, every
\* commit adds a record, and so the ledger holds as many records with a
\* period's key as there were commits of that period by the two runs.
C35_ConcurrentRunsDoubleBook ==
    /\ []C35_EveryCommitAddsARecord
    /\ [][C35_CommitStep]_vars

\* both runs checked a period before either committed it, and both
\* committed: two records with the same key, although the booking day is
\* the first of the month and so within the window of the check
C35_Witness ==
    /\ env.shared
    /\ env.bookingDay = 1
    /\ ~cfg[1].dryRun
    /\ ~cfg[2].dryRun
    /\ \E p \in HorizonMonths :
         /\ CommitsOf(1, p) = 1
         /\ CommitsOf(2, p) = 1
         /\ CountKey(ledger[1], InterestKey(p)) = 2

\* the first n calls of both runs are the same
SameCallsUpTo(a, b) ==
    \A i \in 1..Len(calls[a]) :
        i <= Len(calls[b]) => calls[a][i] = calls[b][i]

\* the account with the configured name in the listing run r is given
NamedAccountOf(r) == FindMortgageAccount(accounts[BookOf(r)], MortgageName)

\* C34: of two runs with the same configuration on copies of the same
\* ledger, one given the account on-budget and the other off-budget, the
\* first logs a warning and the second none, and that is the only
\* difference: at every moment the calls of one are the first calls of the
\* other, with equal requests where both are at the same call, and when
\* both have ended they ended alike, with the same calls, outcomes, error,
\* ledger and budget.
C34_OnBudgetWarningOnly ==
    \A a, b \in Runs :
        (/\ ~env.shared
         /\ NamedAccountOf(a) # NoAccount
         /\ NamedAccountOf(b) # NoAccount
         /\ ~NamedAccountOf(a).offbudget
         /\ NamedAccountOf(b).offbudget
         /\ cfg[a] # NoCfg
         /\ cfg[a] = cfg[b])
        => /\ mortgage[a] # NoAccount => out[a].warned
           /\ ~out[b].warned
           /\ SameCallsUpTo(a, b)
           /\ SameCallsUpTo(b, a)
           /\ (Len(calls[a]) = Len(calls[b]) /\ pc[a] = pc[b])
                => /\ req[a] = req[b]
                   /\ mortgage[a].id = mortgage[b].id
                   /\ processed[a] = processed[b]
                   /\ ledger[a] = ledger[b]
                   /\ budget[a] = budget[b]
           /\ (pc[a] \in Ended /\ pc[b] \in Ended)
                => /\ pc[a] = pc[b]
                   /\ calls[a] = calls[b]
                   /\ processed[a] = processed[b]
                   /\ out[a].error = out[b].error
                   /\ out[a].allDone = out[b].allDone
                   /\ ledger[a] = ledger[b]
                   /\ budget[a] = budget[b]

\* both runs are done, the one on the on-budget account having committed
\* the same two periods as the other
C34_Witness ==
    /\ ~env.shared
    /\ pc[1] = "done"
    /\ pc[2] = "done"
    /\ ~mortgage[1].offbudget
    /\ mortgage[2].offbudget
    /\ out[1].warned
    /\ Len(processed[1]) = 2
    /\ processed[1][2].outcome = "COMMITTED"
    /\ ledger[1] = ledger[2]

\* the periods run r finished with outcome o, with their amounts, in order
ReportOf(r, o) ==
    LET s == SelectSeq(processed[r], LAMBDA e : e.outcome = o)
    IN  [i \in 1..Len(s) |-> [period |-> s[i].period, amount |-> s[i].amount]]

\* C39: of two runs with the same configuration and today on copies of the
\* same ledger, one simulate-only and one not, the periods and amounts the
\* first reports as to be booked are the periods and amounts the second
\* commits.
C39_SimulationPredictsRun ==
    \A a, b \in Runs :
        (/\ ~env.shared
         /\ accounts[a] = accounts[b]
         /\ cfg[a].dryRun
         /\ ~cfg[b].dryRun
         /\ today[a] = today[b]
         /\ pc[a] = "done"
         /\ pc[b] = "done")
        => ReportOf(a, "SIMULATED") = ReportOf(b, "COMMITTED")

=============================================================================
